---- MODULE Spec2Model ----
(***************************************************************************)
(* Auto Shorts backend (src/backend/main.py): two in-memory dictionaries,  *)
(* videos and jobs, the request handlers that read and write them, and the *)
(* background coroutine simulate_processing that advances a job.           *)
(*                                                                         *)
(* All handlers and simulators run on one asyncio event loop, so a         *)
(* coroutine is interrupted only where it awaits.  Each action below is    *)
(* the code of one coroutine from one suspension point to the next: a      *)
(* whole handler, or one segment of simulate_processing between two        *)
(* `await asyncio.sleep(2)`.  The states of the model are therefore        *)
(* exactly the states another request can observe.                         *)
(*                                                                         *)
(* str(uuid.uuid4())[:8] is modelled as a nondeterministic choice of an    *)
(* identifier that is not yet a key of the store it is inserted in.        *)
(***************************************************************************)
EXTENDS Integers, Sequences, FiniteSets, Bags, TLC

\* ---------------------------------------------------------------- bounds
\* The largest quantity a process request carries.
MaxQuantity == 2
\* The largest number of regenerate_clip calls suspended at one time.
MaxInFlight == 1

\* ------------------------------------------------------- python helpers
\* Optional[T]: None is the empty tuple, a value x is <<x>>.
None == <<>>
Some(x) == <<x>>

\* Mutation of Truthy: only None is falsy, so an empty string passes `elif url`.
Truthy_OnlyNoneFalsy(o) == o # None

\* bool(o) for an Optional[str]: None and "" are falsy.
Truthy(o) == o # None /\ o[1] # ""

\* `o or d` for an Optional[str] o.
PyOr(o, d) == IF Truthy(o) THEN o[1] ELSE d

Max(a, b) == IF a >= b THEN a ELSE b

\* ------------------------------------------------------ input universes
\* The identifiers uuid4 can return: one video, two concurrent jobs.
VideoIdPool == { "v1" }
JobIdPool == { "j1", "j2" }
\* The identifiers of a library of two videos.
LibraryIdPool == { "v1", "v2" }

\* UploadFile values: None, or a file whose filename is None or a name.
Files == { None, Some([filename |-> None]), Some([filename |-> Some("a.mp4")]) }
Urls == { None, Some(""), Some("http://x/y.mp4") }
UrlStrings == { "", "http://x/y.mp4" }
\* The video_id values a process request carries: stored ids and one that
\* no upload ever returned.
RequestVideoIds == VideoIdPool \cup { "v0" }
\* datetime.now().isoformat(), and the request fields the job only echoes
\* (no code path reads them): one value each, the request model's default.
Timestamps == { "2024-01-01T00:00:00" }
Durations == { 60 }
Languages == { "en" }
\* ProcessRequest.quantity is an unvalidated int: negative, zero, positive.
Quantities == (-1)..MaxQuantity

\* -------------------------------------------------------------- state
\* videos, jobs: the two dictionaries.  tasks: the simulate_processing
\* coroutines, by job id.  regens: the regenerate_clip calls suspended in
\* their sleep, a bag of requests.  resp: the last response sent.
VARIABLES videos, jobs, tasks, resp, regens

vars == <<videos, jobs, tasks, resp, regens>>

NoResponse == [op |-> "none", code |-> 0, body |-> <<>>]

Ok(op, body) == [op |-> op, code |-> 200, body |-> body]

HTTPException(op, status_code, detail) ==
    [op |-> op, code |-> status_code, body |-> [detail |-> detail]]

Init ==
    /\ videos = <<>>
    /\ jobs = <<>>
    /\ tasks = <<>>
    /\ resp = NoResponse
    /\ regens = EmptyBag

\* ------------------------------------------------------------- upload
\* Mutation of FileRecord: a file record carries an empty url field.
FileRecord_WithUrl(video_id, filename, now) ==
    [id |-> video_id, filename |-> filename, source |-> "file", url |-> "",
     uploaded_at |-> now]

FileRecord(video_id, filename, now) ==
    [id |-> video_id, filename |-> filename, source |-> "file",
     uploaded_at |-> now]

YoutubeFilename(video_id) == "youtube_" \o video_id \o ".mp4"

YoutubeRecord(video_id, url, now) ==
    [id |-> video_id, filename |-> YoutubeFilename(video_id),
     source |-> "youtube", url |-> url, uploaded_at |-> now]

\* upload_video with str(uuid.uuid4())[:8] drawn from the identifiers ids.
upload_video_from(ids, file, url) ==
    IF file # None \/ Truthy(url)
    THEN \E video_id \in ids \ DOMAIN videos, now \in Timestamps :
        /\ IF file # None
           THEN LET filename == PyOr(file[1].filename, "video.mp4") IN
                /\ videos' = videos @@ (video_id :> FileRecord(video_id, filename, now))
                /\ resp' = Ok("upload_video",
                              [video_id |-> video_id, filename |-> filename,
                               message |-> "Video uploaded successfully",
                               status |-> "success"])
           ELSE /\ videos' = videos @@ (video_id :> YoutubeRecord(video_id, url[1], now))
                /\ resp' = Ok("upload_video",
                              [video_id |-> video_id,
                               filename |-> YoutubeFilename(video_id),
                               message |-> "YouTube video queued for download",
                               status |-> "success"])
        /\ UNCHANGED <<jobs, tasks, regens>>
    ELSE /\ resp' = HTTPException("upload_video", 400, "No file or URL provided")
         /\ UNCHANGED <<videos, jobs, tasks, regens>>

upload_video(file, url) == upload_video_from(VideoIdPool, file, url)

\* Mutation of upload_youtube_url_from: the new record replaces the store.
upload_youtube_url_from_ClearsStore(ids, url) ==
    \E video_id \in ids \ DOMAIN videos, now \in Timestamps :
        /\ videos' = (video_id :> YoutubeRecord(video_id, url, now))
        /\ resp' = Ok("upload_youtube_url",
                      [video_id |-> video_id,
                       filename |-> YoutubeFilename(video_id),
                       message |-> "YouTube video queued for processing",
                       status |-> "success"])
        /\ UNCHANGED <<jobs, tasks, regens>>

\* upload_youtube_url with str(uuid.uuid4())[:8] drawn from the identifiers ids.
upload_youtube_url_from(ids, url) ==
    \E video_id \in ids \ DOMAIN videos, now \in Timestamps :
        /\ videos' = videos @@ (video_id :> YoutubeRecord(video_id, url, now))
        /\ resp' = Ok("upload_youtube_url",
                      [video_id |-> video_id,
                       filename |-> YoutubeFilename(video_id),
                       message |-> "YouTube video queued for processing",
                       status |-> "success"])
        /\ UNCHANGED <<jobs, tasks, regens>>

upload_youtube_url(url) == upload_youtube_url_from(VideoIdPool, url)

\* ------------------------------------------------------------ process
StepNames ==
    <<"Analyzing Video", "Extracting Highlights", "Generating Captions",
      "Creating Shorts", "Finalizing">>

NumSteps == Len(StepNames)

\* Mutation of NewJob: the handler itself already opens the first step.
NewJob_FirstStepOpened(job_id, video_id, duration, quantity, language, now) ==
    [job_id |-> job_id,
     video_id |-> video_id,
     status |-> "processing",
     progress |-> 0,
     current_step |-> StepNames[1],
     steps |-> [k \in 1..NumSteps |->
                  [name |-> StepNames[k],
                   status |-> IF k = 1 THEN "in_progress" ELSE "pending"]],
     clips |-> <<>>,
     duration |-> duration,
     quantity |-> quantity,
     language |-> language,
     created_at |-> now]

\* The job record process_video stores (main.py 150-168).
NewJob(job_id, video_id, duration, quantity, language, now) ==
    [job_id |-> job_id,
     video_id |-> video_id,
     status |-> "processing",
     progress |-> 0,
     current_step |-> "Initializing...",
     steps |-> [k \in 1..NumSteps |-> [name |-> StepNames[k], status |-> "pending"]],
     clips |-> <<>>,
     duration |-> duration,
     quantity |-> quantity,
     language |-> language,
     created_at |-> now]

\* background_tasks.add_task(simulate_processing, job_id, quantity): the task
\* holds its own copies of job_id (the key) and quantity, and starts later.
AddTask(job_id, quantity) ==
    tasks @@ (job_id :> [pc |-> "scheduled", i |-> 0, quantity |-> quantity])

\* Mutation of process_video: the `video_id not in videos` check is missing.
process_video_Unchecked(video_id, duration, quantity, language) ==
    \E job_id \in JobIdPool \ DOMAIN jobs, now \in Timestamps :
        /\ jobs' = jobs @@ (job_id :> NewJob(job_id, video_id, duration, quantity,
                                             language, now))
        /\ tasks' = AddTask(job_id, quantity)
        /\ resp' = Ok("process_video",
                      [job_id |-> job_id, message |-> "Processing started",
                       status |-> "processing"])
        /\ UNCHANGED <<videos, regens>>

process_video(video_id, duration, quantity, language) ==
    IF video_id \notin DOMAIN videos
    THEN /\ resp' = HTTPException("process_video", 404, "Video not found")
         /\ UNCHANGED <<videos, jobs, tasks, regens>>
    ELSE \E job_id \in JobIdPool \ DOMAIN jobs, now \in Timestamps :
        /\ jobs' = jobs @@ (job_id :> NewJob(job_id, video_id, duration, quantity,
                                             language, now))
        /\ tasks' = AddTask(job_id, quantity)
        /\ resp' = Ok("process_video",
                      [job_id |-> job_id, message |-> "Processing started",
                       status |-> "processing"])
        /\ UNCHANGED <<videos, regens>>

\* ---------------------------------------------------------- simulator
\* Mutation of Progress: the percentage of the steps still to run.
Progress_Remaining(i) == ((NumSteps - (i + 1)) * 100) \div NumSteps

\* int(((i + 1) / len(steps)) * 100) for the 0-based step index i: the float
\* product is 20.0, 40.0, 60.0, 80.0, 100.0 and int() truncates.
Progress(i) == ((i + 1) * 100) \div NumSteps

\* Mutation of BeginStep: the step is marked completed as soon as it starts.
BeginStep_MarksCompleted(job, i) ==
    [job EXCEPT !.current_step = StepNames[i + 1],
                !.steps[i + 1].status = "completed"]

\* Lines 188-189: the head of loop iteration i.
BeginStep(job, i) ==
    [job EXCEPT !.current_step = StepNames[i + 1],
                !.steps[i + 1].status = "in_progress"]

\* Mutation of FinishStep: progress is set but the step is left in_progress.
FinishStep_KeepsStepOpen(job, i) ==
    [job EXCEPT !.progress = Progress(i)]

\* Lines 195-197: the tail of loop iteration i, after the sleep.
FinishStep(job, i) ==
    [job EXCEPT !.progress = Progress(i),
                !.steps[i + 1].status = "completed"]

\* len(range(quantity)).
RangeLen(quantity) == Max(0, quantity)

ClipDurations == { 30, 45, 60 }

\* Mutation of ClipId: the loop variable j is used where j+1 is meant.
ClipId_ZeroBased(job_id, n) == "clip_" \o job_id \o "_" \o ToString(n - 1)

ClipId(job_id, n) == "clip_" \o job_id \o "_" \o ToString(n)

\* The clip appended for loop variable j = n - 1 (lines 202-209).
MakeClip(job_id, n, duration) ==
    [id |-> ClipId(job_id, n),
     url |-> "https://sample-videos.com/video123/mp4/720/big_buck_bunny_720p_1mb.mp4",
     thumbnail_url |-> "https://picsum.photos/seed/" \o ClipId(job_id, n) \o "/270/480",
     duration |-> duration,
     title |-> "Viral Short #" \o ToString(n)]

\* Lines 200-209; choices[n] is the outcome of the n-th random.choice.
GenerateClips(job_id, quantity, choices) ==
    [n \in 1..RangeLen(quantity) |-> MakeClip(job_id, n, choices[n])]

\* Mutation of Complete: current_step is left at the last step's name.
Complete_KeepsCurrentStep(job, clips) ==
    [job EXCEPT !.clips = clips,
                !.status = "completed"]

\* Mutation of Complete: created_at is overwritten with the completion.
Complete_StampsCreatedAt(job, clips) ==
    [job EXCEPT !.clips = clips,
                !.status = "completed",
                !.current_step = "Complete!",
                !.created_at = "completed"]

\* Lines 211-213.
Complete(job, clips) ==
    [job EXCEPT !.clips = clips,
                !.status = "completed",
                !.current_step = "Complete!"]

\* Mutation of SimStart: the first step is opened in every stored job.
SimStart_OpensEveryJob(job_id) ==
    /\ job_id \in DOMAIN tasks
    /\ tasks[job_id].pc = "scheduled"
    /\ IF job_id \notin DOMAIN jobs
       THEN /\ tasks' = [tasks EXCEPT ![job_id].pc = "done"]
            /\ jobs' = jobs
       ELSE /\ jobs' = [other \in DOMAIN jobs |-> BeginStep(jobs[other], 0)]
            /\ tasks' = [tasks EXCEPT ![job_id].pc = "sleeping"]
    /\ UNCHANGED <<videos, resp, regens>>

\* The task starts: lines 181-189, up to the first sleep.
SimStart(job_id) ==
    /\ job_id \in DOMAIN tasks
    /\ tasks[job_id].pc = "scheduled"
    /\ IF job_id \notin DOMAIN jobs
       THEN /\ tasks' = [tasks EXCEPT ![job_id].pc = "done"]
            /\ jobs' = jobs
       ELSE /\ jobs' = [jobs EXCEPT ![job_id] = BeginStep(@, 0)]
            /\ tasks' = [tasks EXCEPT ![job_id].pc = "sleeping"]
    /\ UNCHANGED <<videos, resp, regens>>

\* Mutation of SimWake: the task suspends once more between completing the
\* last step and lines 199-213.
SimWake_SuspendsBeforeCompletion(job_id) ==
    /\ job_id \in DOMAIN tasks
    /\ tasks[job_id].pc = "sleeping"
    /\ LET i == tasks[job_id].i
           quantity == tasks[job_id].quantity
           finished == FinishStep(jobs[job_id], i)
       IN  \/ /\ i + 1 < NumSteps
              /\ jobs' = [jobs EXCEPT ![job_id] = BeginStep(finished, i + 1)]
              /\ tasks' = [tasks EXCEPT ![job_id].i = i + 1]
           \/ /\ i + 1 = NumSteps
              /\ jobs[job_id] # finished
              /\ jobs' = [jobs EXCEPT ![job_id] = finished]
              /\ tasks' = tasks
           \/ /\ i + 1 = NumSteps
              /\ jobs[job_id] = finished
              /\ \E choices \in [1..RangeLen(quantity) -> ClipDurations] :
                    jobs' = [jobs EXCEPT ![job_id] =
                                Complete(finished,
                                         GenerateClips(job_id, quantity, choices))]
              /\ tasks' = [tasks EXCEPT ![job_id].pc = "done"]
    /\ UNCHANGED <<videos, resp, regens>>

\* The sleep of iteration i ends: lines 195-197, then either the head of
\* iteration i + 1 (lines 188-189) up to its sleep, or lines 199-213.
SimWake(job_id) ==
    /\ job_id \in DOMAIN tasks
    /\ tasks[job_id].pc = "sleeping"
    /\ LET i == tasks[job_id].i
           quantity == tasks[job_id].quantity
           finished == FinishStep(jobs[job_id], i)
       IN  \/ /\ i + 1 < NumSteps
              /\ tasks' = [tasks EXCEPT ![job_id].i = i + 1]
              /\ jobs' = [jobs EXCEPT ![job_id] = BeginStep(finished, i + 1)]
           \/ /\ i + 1 = NumSteps
              /\ tasks' = [tasks EXCEPT ![job_id].pc = "done"]
              /\ \E choices \in [1..RangeLen(quantity) -> ClipDurations] :
                    jobs' = [jobs EXCEPT ![job_id] =
                                Complete(finished,
                                         GenerateClips(job_id, quantity, choices))]
    /\ UNCHANGED <<videos, resp, regens>>

\* ------------------------------------------------------------- status
\* Mutation of EstimatedTimeRemaining: `// 10 * 2` read as `// (10 * 2)`.
EstimatedTimeRemaining_DividesByTwenty(progress) ==
    Max(0, 100 - progress) \div (10 * 2)

EstimatedTimeRemaining(progress) == (Max(0, 100 - progress) \div 10) * 2

get_job_status(job_id) ==
    /\ IF job_id \notin DOMAIN jobs
       THEN resp' = HTTPException("get_job_status", 404, "Job not found")
       ELSE LET job == jobs[job_id] IN
            resp' = Ok("get_job_status",
                       [job_id |-> job.job_id,
                        status |-> job.status,
                        progress |-> job.progress,
                        current_step |-> job.current_step,
                        steps |-> job.steps,
                        clips |-> job.clips,
                        estimated_time_remaining |->
                            EstimatedTimeRemaining(job.progress)])
    /\ UNCHANGED <<videos, jobs, tasks, regens>>

\* --------------------------------------------------------- regenerate
\* RegenerateRequest values: a stored or unknown job_id, a clip_id that may
\* or may not name a clip of that job, and the default CaptionStyle.
RequestJobIds == JobIdPool \cup { "j0" }
RequestClipIds == { "clip_j1_1", "no-such-clip" }
CaptionStyles ==
    { [style |-> "Modern", color |-> "#FFFFFF", font_size |-> 24,
       position |-> "bottom"] }
RegenerateRequests ==
    [job_id : RequestJobIds, clip_id : RequestClipIds,
     caption_style : CaptionStyles]

\* Lines 237-241: the check, then the handler suspends in asyncio.sleep(2).
regenerate_clip(request) ==
    IF request.job_id \notin DOMAIN jobs
    THEN /\ resp' = HTTPException("regenerate_clip", 404, "Job not found")
         /\ UNCHANGED <<videos, jobs, tasks, regens>>
    ELSE /\ BagCardinality(regens) < MaxInFlight
         /\ regens' = regens (+) SetToBag({request})
         /\ UNCHANGED <<videos, jobs, tasks, resp>>

\* Mutation of regenerate_clip_return: the handler records the regeneration
\* on the stored job.
regenerate_clip_return_MarksJob(request) ==
    /\ BagIn(request, regens)
    /\ regens' = regens (-) SetToBag({request})
    /\ jobs' = [jobs EXCEPT ![request.job_id].status = "regenerated"]
    /\ resp' = Ok("regenerate_clip",
                  [job_id |-> request.job_id,
                   clip_id |-> request.clip_id,
                   url |-> "https://sample-videos.com/video123/mp4/720/big_buck_bunny_720p_1mb.mp4",
                   status |-> "regenerated"])
    /\ UNCHANGED <<videos, tasks>>

\* Lines 243-248: the sleep ends and the handler returns.
regenerate_clip_return(request) ==
    /\ BagIn(request, regens)
    /\ regens' = regens (-) SetToBag({request})
    /\ resp' = Ok("regenerate_clip",
                  [job_id |-> request.job_id,
                   clip_id |-> request.clip_id,
                   url |-> "https://sample-videos.com/video123/mp4/720/big_buck_bunny_720p_1mb.mp4",
                   status |-> "regenerated"])
    /\ UNCHANGED <<videos, jobs, tasks>>

\* -------------------------------------------------------------- share
\* The platform path parameter is a string the handler lower-cases and
\* title-cases, so it is modelled as the tuple of its characters.
UpperCase ==
    <<"A", "B", "C", "D", "E", "F", "G", "H", "I", "J", "K", "L", "M",
      "N", "O", "P", "Q", "R", "S", "T", "U", "V", "W", "X", "Y", "Z">>
LowerCase ==
    <<"a", "b", "c", "d", "e", "f", "g", "h", "i", "j", "k", "l", "m",
      "n", "o", "p", "q", "r", "s", "t", "u", "v", "w", "x", "y", "z">>

\* The case mappings of str.lower() and str.upper() on ASCII letters.
ToLower ==
    [c \in {UpperCase[k] : k \in DOMAIN UpperCase} |->
        LowerCase[CHOOSE k \in DOMAIN UpperCase : UpperCase[k] = c]]
ToUpper ==
    [c \in {LowerCase[k] : k \in DOMAIN LowerCase} |->
        UpperCase[CHOOSE k \in DOMAIN LowerCase : LowerCase[k] = c]]

IsLetter(c) == c \in DOMAIN ToLower \/ c \in DOMAIN ToUpper

LowerChar(c) == IF c \in DOMAIN ToLower THEN ToLower[c] ELSE c
UpperChar(c) == IF c \in DOMAIN ToUpper THEN ToUpper[c] ELSE c

\* Mutation of Lower: the platform is compared as given.
Lower_AsGiven(str) == str

\* str.lower()
Lower(str) == [k \in DOMAIN str |-> LowerChar(str[k])]

\* str.title(): a letter that starts a run of letters is upper-cased, every
\* other letter lower-cased.
Title(str) ==
    [k \in DOMAIN str |->
        IF k = 1 \/ ~IsLetter(str[k - 1])
        THEN UpperChar(str[k]) ELSE LowerChar(str[k])]

valid_platforms ==
    << <<"i", "n", "s", "t", "a", "g", "r", "a", "m">>,
       <<"y", "o", "u", "t", "u", "b", "e">>,
       <<"t", "i", "k", "t", "o", "k">> >>

\* `x in list`
InList(x, list) == \E k \in DOMAIN list : list[k] = x

Platforms ==
    { <<"i", "n", "s", "t", "a", "g", "r", "a", "m">>,
      <<"Y", "o", "u", "T", "u", "b", "e">>,
      <<"T", "I", "K", "T", "O", "K">>,
      <<"f", "a", "c", "e", "b", "o", "o", "k">>,
      <<"b", "o", "g", "u", "s", "-", "p", "l", "a", "t", "f", "o", "r", "m">> }

ShareRequests ==
    { [clip_id |-> "clip_j1_1",
       video_url |-> "https://sample-videos.com/video123/mp4/720/big_buck_bunny_720p_1mb.mp4",
       title |-> None, description |-> None, hashtags |-> None] }

\* An f-string is modelled as the tuple of its literal and formatted parts.
share_video(platform, request) ==
    /\ IF ~InList(Lower(platform), valid_platforms)
       THEN resp' = HTTPException("share_video", 400,
                                  <<"Invalid platform. Use: ", valid_platforms>>)
       ELSE resp' = Ok("share_video",
                       [success |-> TRUE,
                        message |-> <<"Video ready to share on ", Title(platform)>>,
                        share_url |-> <<"https://", platform, ".com/share?video=",
                                        request.clip_id>>])
    /\ UNCHANGED <<videos, jobs, tasks, regens>>

\* ------------------------------------------------------------- rocket
RocketTitles ==
    <<"This changed everything!", "Wait for it...",
      "POV: You just discovered this", "Nobody talks about this enough",
      "This is why you need to see this">>

RocketDescriptions ==
    <<"You won't believe what happens next! Watch until the end",
      "This is the content you've been waiting for",
      "Drop a comment if you agree!",
      "Save this for later, you'll thank me",
      "Tag someone who needs to see this">>

hashtags ==
    <<"fyp", "viral", "trending", "shorts", "reels",
      "explore", "foryou", "trend", "video", "content">>

\* Mutation of SampleIndices: drawn with replacement, as random.choices does.
SampleIndices_WithReplacement(n, k) == [1..k -> 1..n]

\* The outcomes of random.sample over n items, k drawn: every ordered choice
\* of k different positions.
SampleIndices(n, k) ==
    {picks \in [1..k -> 1..n] : \A a, b \in 1..k : picks[a] = picks[b] => a = b}

RocketRequests == { [clip_id |-> "clip_j1_1", platform |-> None] }

generate_rocket_metadata(request) ==
    \E title \in DOMAIN RocketTitles, description \in DOMAIN RocketDescriptions,
       picks \in SampleIndices(Len(hashtags), 5) :
        /\ resp' = Ok("generate_rocket_metadata",
                      [title |-> RocketTitles[title],
                       description |-> RocketDescriptions[description],
                       hashtags |-> [n \in 1..5 |-> hashtags[picks[n]]],
                       suggested_time |-> "6:00 PM - 9:00 PM"])
        /\ UNCHANGED <<videos, jobs, tasks, regens>>

\* ---------------------------------------------------------------- next
Next ==
    \/ \E file \in Files, url \in Urls : upload_video(file, url)
    \/ \E url \in UrlStrings : upload_youtube_url(url)
    \/ \E video_id \in RequestVideoIds, duration \in Durations,
          quantity \in Quantities, language \in Languages :
            process_video(video_id, duration, quantity, language)
    \/ \E job_id \in JobIdPool : SimStart(job_id)
    \/ \E job_id \in JobIdPool : SimWake(job_id)
    \/ \E job_id \in JobIdPool : get_job_status(job_id)

Spec == Init /\ [][Next]_vars

\* Every handler that reads or could write the stores, with regenerate_clip
\* calls suspended while the simulators run.  The quantity of a request is
\* drawn from ApiQuantities.
ApiQuantities == { 0, 1 }

ApiNext ==
    \/ \E file \in Files, url \in Urls : upload_video(file, url)
    \/ \E url \in UrlStrings : upload_youtube_url(url)
    \/ \E video_id \in RequestVideoIds, duration \in Durations,
          quantity \in ApiQuantities, language \in Languages :
            process_video(video_id, duration, quantity, language)
    \/ \E job_id \in JobIdPool : SimStart(job_id)
    \/ \E job_id \in JobIdPool : SimWake(job_id)
    \/ \E job_id \in JobIdPool : get_job_status(job_id)
    \/ \E request \in RegenerateRequests : regenerate_clip(request)
    \/ \E request \in RegenerateRequests : regenerate_clip_return(request)
    \/ \E platform \in Platforms, request \in ShareRequests :
          share_video(platform, request)

ApiSpec == Init /\ [][ApiNext]_vars

\* regenerate_clip calls suspended while the job pipeline runs.
RegenNext ==
    \/ \E url \in UrlStrings : upload_youtube_url(url)
    \/ \E video_id \in RequestVideoIds, duration \in Durations,
          quantity \in ApiQuantities, language \in Languages :
            process_video(video_id, duration, quantity, language)
    \/ \E job_id \in JobIdPool : SimStart(job_id)
    \/ \E job_id \in JobIdPool : SimWake(job_id)
    \/ \E request \in RegenerateRequests : regenerate_clip(request)
    \/ \E request \in RegenerateRequests : regenerate_clip_return(request)

RegenSpec == Init /\ [][RegenNext]_vars

\* share_video beside the job pipeline: the handler reads neither store, so
\* the other handlers are left out.
ShareNext ==
    \/ \E url \in UrlStrings : upload_youtube_url(url)
    \/ \E video_id \in RequestVideoIds, duration \in Durations,
          quantity \in ApiQuantities, language \in Languages :
            process_video(video_id, duration, quantity, language)
    \/ \E job_id \in JobIdPool : SimStart(job_id)
    \/ \E job_id \in JobIdPool : SimWake(job_id)
    \/ \E platform \in Platforms, request \in ShareRequests :
          share_video(platform, request)

ShareSpec == Init /\ [][ShareNext]_vars

\* Every handler that reads or could write the stores, with a library of two
\* videos: an upload can follow an upload, and every other handler and the
\* simulators run while both records are stored.
LibraryQuantities == { 0 }

LibraryNext ==
    \/ \E file \in Files, url \in Urls : upload_video_from(LibraryIdPool, file, url)
    \/ \E url \in UrlStrings : upload_youtube_url_from(LibraryIdPool, url)
    \/ \E video_id \in RequestVideoIds, duration \in Durations,
          quantity \in LibraryQuantities, language \in Languages :
            process_video(video_id, duration, quantity, language)
    \/ \E job_id \in JobIdPool : SimStart(job_id)
    \/ \E job_id \in JobIdPool : SimWake(job_id)
    \/ \E job_id \in JobIdPool : get_job_status(job_id)
    \/ \E request \in RegenerateRequests : regenerate_clip(request)
    \/ \E request \in RegenerateRequests : regenerate_clip_return(request)
    \/ \E platform \in Platforms, request \in ShareRequests :
          share_video(platform, request)

LibrarySpec == Init /\ [][LibraryNext]_vars

\* generate_rocket_metadata on an empty and on a filled video store.  The
\* handler reads no state, so a call that follows another call has the
\* outcomes of a call from any other state: RocketNext takes the call only
\* when the last response is not one of its own.
RocketNext ==
    \/ \E url \in { "http://x/y.mp4" } : upload_youtube_url(url)
    \/ /\ resp.op # "generate_rocket_metadata"
       /\ \E request \in RocketRequests : generate_rocket_metadata(request)

RocketSpec == Init /\ [][RocketNext]_vars

\* asyncio runs every scheduled background task and wakes every sleeper.
FairSpec ==
    Spec /\ \A job_id \in JobIdPool :
                WF_vars(SimStart(job_id)) /\ WF_vars(SimWake(job_id))

\* ====================================================== properties
AllStepsCompleted(job) ==
    \A k \in 1..Len(job.steps) : job.steps[k].status = "completed"

Finished(job_id) ==
    /\ job_id \in DOMAIN jobs
    /\ jobs[job_id].status = "completed"
    /\ jobs[job_id].progress = 100
    /\ Len(jobs[job_id].steps) = 5
    /\ AllStepsCompleted(jobs[job_id])

\* C1: every job a successful process request created eventually reaches,
\* and then stays in, a state with status completed, progress 100, all 5
\* steps completed and as many clips as the requested quantity (simulators
\* scheduled fairly), for every quantity and any interleaving.
C1_EventuallyCompletedWithQuantityClips ==
    \A job_id \in JobIdPool :
        [](job_id \in DOMAIN jobs =>
             <>[](Finished(job_id)
                  /\ Len(jobs[job_id].clips) = jobs[job_id].quantity))

\* C2: in every reachable state, a job's clips are empty while its status is
\* not completed, and number exactly `quantity` once it is completed.
C2_ClipsEmptyThenQuantity ==
    \A job_id \in DOMAIN jobs :
        LET job == jobs[job_id] IN
        /\ job.status # "completed" => job.clips = <<>>
        /\ job.status = "completed" => Len(job.clips) = job.quantity

\* C3: for every job, progress is an integer in 0..100 in every state and no
\* step of the system (simulator or handler, of this or another job) lowers it.
C3_ProgressBoundedMonotone ==
    /\ [](\A job_id \in DOMAIN jobs : jobs[job_id].progress \in 0..100)
    /\ [][\A job_id \in DOMAIN jobs :
            /\ job_id \in DOMAIN jobs'
            /\ jobs'[job_id].progress >= jobs[job_id].progress]_vars

\* C3 witness: one job has finished while the other is half way.
C3_Witness ==
    \E a, b \in DOMAIN jobs :
        /\ jobs[a].progress = 100
        /\ jobs[b].progress = 40
        /\ jobs[b].steps[3].status = "in_progress"

StepStatusAdvance(a, b) ==
    \/ a = b
    \/ a = "pending" /\ b = "in_progress"
    \/ a = "in_progress" /\ b = "completed"

\* C4: every step status only moves pending -> in_progress -> completed, one
\* stage at a time and never back; the 5 steps keep their fixed order, step
\* i+1 has left pending only if step i is completed, and at most one step is
\* in_progress.
C4_StepsAdvanceInOrder ==
    /\ [](\A job_id \in DOMAIN jobs :
            LET steps == jobs[job_id].steps IN
            /\ [k \in DOMAIN steps |-> steps[k].name] =
                   <<"Analyzing Video", "Extracting Highlights",
                     "Generating Captions", "Creating Shorts", "Finalizing">>
            /\ \A k \in 1..4 :
                   steps[k + 1].status # "pending" => steps[k].status = "completed"
            /\ Cardinality({k \in 1..5 : steps[k].status = "in_progress"}) <= 1)
    /\ [][\A job_id \in DOMAIN jobs :
            /\ job_id \in DOMAIN jobs'
            /\ \A k \in 1..5 :
                   StepStatusAdvance(jobs[job_id].steps[k].status,
                                     jobs'[job_id].steps[k].status)]_vars

\* C4 witness: a job with two steps completed, the third in progress and the
\* rest pending, beside another job that has not started.
C4_Witness ==
    \E a, b \in DOMAIN jobs :
        /\ [k \in 1..5 |-> jobs[a].steps[k].status] =
               <<"completed", "completed", "in_progress", "pending", "pending">>
        /\ \A k \in 1..5 : jobs[b].steps[k].status = "pending"

\* C5: a process request for a stored video inserts exactly one new job
\* (processing, progress 0, the 5 named steps pending, no clips), schedules
\* one simulator for it that has not run yet, and answers status processing.
C5_ProcessCreatesPendingJob ==
    [][\A video_id \in RequestVideoIds, duration \in Durations,
         quantity \in Quantities, language \in Languages :
           (video_id \in DOMAIN videos
            /\ process_video(video_id, duration, quantity, language))
           => \E job_id \in JobIdPool \ DOMAIN jobs :
                /\ DOMAIN jobs' = DOMAIN jobs \cup {job_id}
                /\ \A other \in DOMAIN jobs : jobs'[other] = jobs[other]
                /\ jobs'[job_id].status = "processing"
                /\ jobs'[job_id].progress = 0
                /\ jobs'[job_id].steps =
                     <<[name |-> "Analyzing Video", status |-> "pending"],
                       [name |-> "Extracting Highlights", status |-> "pending"],
                       [name |-> "Generating Captions", status |-> "pending"],
                       [name |-> "Creating Shorts", status |-> "pending"],
                       [name |-> "Finalizing", status |-> "pending"]>>
                /\ jobs'[job_id].clips = <<>>
                /\ jobs'[job_id].video_id = video_id
                /\ DOMAIN tasks' = DOMAIN tasks \cup {job_id}
                /\ job_id \notin DOMAIN tasks
                /\ \A other \in DOMAIN tasks : tasks'[other] = tasks[other]
                /\ tasks'[job_id].pc = "scheduled"
                /\ tasks'[job_id].quantity = quantity
                /\ resp'.op = "process_video"
                /\ resp'.code = 200
                /\ resp'.body.status = "processing"
                /\ resp'.body.job_id = job_id]_vars

\* C5 witness: the response to a second process request, made while the
\* first job's simulator is running; the new job's simulator has not started.
C5_Witness ==
    /\ resp.op = "process_video"
    /\ resp.code = 200
    /\ \E other \in DOMAIN jobs :
         /\ other # resp.body.job_id
         /\ jobs[other].progress = 60
    /\ jobs[resp.body.job_id].progress = 0
    /\ tasks[resp.body.job_id].pc = "scheduled"

\* The set of steps the simulator has marked so far.
Marked(job) == {k \in 1..Len(job.steps) : job.steps[k].status # "pending"}

LastMarked(job) == CHOOSE k \in Marked(job) : \A m \in Marked(job) : m <= k

\* The statement of C6 as written, for a job record or a status snapshot.
CurrentStepIsStepName(job) ==
    IF job.status = "completed"
    THEN job.current_step = job.steps[5].name
    ELSE Marked(job) # {} => job.current_step = job.steps[LastMarked(job)].name

\* C6 as amended.
CurrentStepLabel(job) ==
    IF job.status = "completed"
    THEN job.current_step = "Complete!"
    ELSE IF Marked(job) = {}
    THEN job.current_step = "Initializing..."
    ELSE job.current_step = job.steps[LastMarked(job)].name

IsStatusSnapshot(r) == r.op = "get_job_status" /\ r.code = 200

\* C6 (original statement): in every stored job and every status response,
\* current_step is the name of the step most recently marked in_progress, or
\* the 5th step's name once the job is completed.
C6_CurrentStepIsStepName ==
    /\ \A job_id \in DOMAIN jobs : CurrentStepIsStepName(jobs[job_id])
    /\ IsStatusSnapshot(resp) => CurrentStepIsStepName(resp.body)

\* C6 (amended): in every stored job and every status response, current_step
\* is "Initializing..." until the simulator has marked a step, then the name
\* of the step most recently marked in_progress, and "Complete!" once the job
\* is completed.
C6_CurrentStepLabel ==
    /\ \A job_id \in DOMAIN jobs : CurrentStepLabel(jobs[job_id])
    /\ IsStatusSnapshot(resp) => CurrentStepLabel(resp.body)

\* C6 witness: a status response taken during the third step, of a job that
\* has completed since.
C6_Witness ==
    /\ IsStatusSnapshot(resp)
    /\ resp.body.current_step = "Generating Captions"
    /\ resp.body.steps[3].status = "in_progress"
    /\ jobs[resp.body.job_id].status = "completed"
    /\ jobs[resp.body.job_id].current_step = "Complete!"

\* C7: a process request whose video_id is not in the video store answers
\* 404 and changes nothing: no job, no simulator, both stores as before.
C7_ProcessUnknownVideo ==
    [][\A video_id \in RequestVideoIds, duration \in Durations,
         quantity \in Quantities, language \in Languages :
           (video_id \notin DOMAIN videos
            /\ process_video(video_id, duration, quantity, language))
           => /\ resp'.op = "process_video"
              /\ resp'.code = 404
              /\ jobs' = jobs
              /\ tasks' = tasks
              /\ videos' = videos]_vars

\* C7 witness: a 404 from process while a video and a running job exist.
C7_Witness ==
    /\ resp.op = "process_video"
    /\ resp.code = 404
    /\ DOMAIN videos # {}
    /\ \E job_id \in DOMAIN jobs : jobs[job_id].status = "processing"

\* C8: an upload with neither a file nor a non-empty url answers 400 and
\* leaves the video store as it was; with a file or a non-empty url it
\* inserts exactly one new video record and returns its id.
C8_UploadNeedsFileOrUrl ==
    [][\A file \in Files, url \in Urls :
           upload_video(file, url)
           => IF file = None /\ (url = None \/ url = Some(""))
              THEN /\ resp'.op = "upload_video"
                   /\ resp'.code = 400
                   /\ videos' = videos
              ELSE \E video_id \in VideoIdPool \ DOMAIN videos :
                     /\ DOMAIN videos' = DOMAIN videos \cup {video_id}
                     /\ \A other \in DOMAIN videos : videos'[other] = videos[other]
                     /\ videos'[video_id].id = video_id
                     /\ resp'.op = "upload_video"
                     /\ resp'.code = 200
                     /\ resp'.body.video_id = video_id]_vars

\* C8 witness: a 400 from upload, after an earlier upload stored a video.
C8_Witness ==
    /\ resp.op = "upload_video"
    /\ resp.code = 400
    /\ DOMAIN videos # {}

\* C9: the estimate a status response carries is floor((100 - progress)/10)*2
\* for the job's progress and 0 at progress 100; a status read that follows
\* another of the same job returns no larger an estimate, and no step of the
\* system raises the estimate a read of a job would return.
C9_EstimatedTimeRemaining ==
    [][/\ \A job_id \in DOMAIN jobs :
            get_job_status(job_id)
            => /\ resp'.body.estimated_time_remaining =
                      ((100 - jobs[job_id].progress) \div 10) * 2
               /\ jobs[job_id].progress = 100
                      => resp'.body.estimated_time_remaining = 0
               /\ (IsStatusSnapshot(resp) /\ resp.body.job_id = job_id)
                      => resp'.body.estimated_time_remaining
                             <= resp.body.estimated_time_remaining
       /\ \A job_id \in DOMAIN jobs :
            ((100 - jobs'[job_id].progress) \div 10) * 2
                <= ((100 - jobs[job_id].progress) \div 10) * 2]_vars

\* C9 witness: a status read at progress 100 returning 0, while the other
\* job is at progress 40.
C9_Witness ==
    /\ IsStatusSnapshot(resp)
    /\ resp.body.progress = 100
    /\ resp.body.estimated_time_remaining = 0
    /\ \E other \in DOMAIN jobs : jobs[other].progress = 40

\* C10: the clips of a completed job J with quantity q are, for n = 1..q in
\* order, the records with id "clip_J_n" and title "Viral Short #n", each
\* with a duration in {30, 45, 60}; the ids are pairwise distinct.
C10_ClipsOfCompletedJob ==
    \A job_id \in DOMAIN jobs :
        LET job == jobs[job_id]
            clips == job.clips
        IN  job.status = "completed" =>
              /\ DOMAIN clips = 1..job.quantity
              /\ \A n \in DOMAIN clips :
                   /\ clips[n].id = "clip_" \o job_id \o "_" \o ToString(n)
                   /\ clips[n].title = "Viral Short #" \o ToString(n)
                   /\ clips[n].duration \in {30, 45, 60}
              /\ \A m, n \in DOMAIN clips : clips[m].id = clips[n].id => m = n

\* C10 witness: a completed job of quantity 2 whose two clips drew different
\* durations.
C10_Witness ==
    \E job_id \in DOMAIN jobs :
        /\ jobs[job_id].status = "completed"
        /\ jobs[job_id].quantity = 2
        /\ Len(jobs[job_id].clips) = 2
        /\ jobs[job_id].clips[1].duration # jobs[job_id].clips[2].duration

\* C11: regenerate answers 404 for a job_id that is not in the job store and
\* otherwise, after its suspension, status regenerated for any clip_id; the
\* handler writes neither store, and while a call for job J is suspended
\* only J's own simulator changes jobs[J].
C11_RegenerateWritesNothing ==
    [][/\ \A request \in RegenerateRequests :
            /\ regenerate_clip(request)
               => /\ jobs' = jobs
                  /\ videos' = videos
                  /\ IF request.job_id \in DOMAIN jobs
                     THEN BagIn(request, regens') /\ resp' = resp
                     ELSE /\ resp'.op = "regenerate_clip"
                          /\ resp'.code = 404
                          /\ regens' = regens
            /\ regenerate_clip_return(request)
               => /\ jobs' = jobs
                  /\ videos' = videos
                  /\ resp'.op = "regenerate_clip"
                  /\ resp'.code = 200
                  /\ resp'.body.status = "regenerated"
                  /\ resp'.body.job_id = request.job_id
                  /\ resp'.body.clip_id = request.clip_id
       /\ \A request \in BagToSet(regens) :
            /\ request.job_id \in DOMAIN jobs
            /\ request.job_id \in DOMAIN jobs'
            /\ jobs'[request.job_id] # jobs[request.job_id]
               => SimStart(request.job_id) \/ SimWake(request.job_id)]_vars

\* C11 witness: a regenerated response for a clip id that is no clip of the
\* job, whose simulator completed the job while the call was suspended or
\* before.
C11_Witness ==
    /\ resp.op = "regenerate_clip"
    /\ resp.code = 200
    /\ resp.body.status = "regenerated"
    /\ resp.body.clip_id = "no-such-clip"
    /\ jobs[resp.body.job_id].status = "completed"
    /\ Len(jobs[resp.body.job_id].clips) = 1
    /\ \A n \in DOMAIN jobs[resp.body.job_id].clips :
         jobs[resp.body.job_id].clips[n].id # resp.body.clip_id

\* C12: share succeeds exactly for the platforms whose lower-cased name is
\* instagram, youtube or tiktok; any other platform gets a 400 whose detail
\* lists exactly those three; neither store changes in either case.
C12_ShareValidatesPlatform ==
    [][\A platform \in Platforms, request \in ShareRequests :
         share_video(platform, request)
         => /\ videos' = videos
            /\ jobs' = jobs
            /\ resp'.op = "share_video"
            /\ IF platform \in { <<"i", "n", "s", "t", "a", "g", "r", "a", "m">>,
                                 <<"Y", "o", "u", "T", "u", "b", "e">>,
                                 <<"T", "I", "K", "T", "O", "K">> }
               THEN /\ resp'.code = 200
                    /\ resp'.body.success = TRUE
               ELSE /\ resp'.code = 400
                    /\ resp'.body.detail[2] =
                         << <<"i", "n", "s", "t", "a", "g", "r", "a", "m">>,
                            <<"y", "o", "u", "t", "u", "b", "e">>,
                            <<"t", "i", "k", "t", "o", "k">> >>]_vars

\* C12 witness: an upper-case TIKTOK was accepted while a job is stored.
C12_Witness ==
    /\ resp.op = "share_video"
    /\ resp.code = 200
    /\ resp.body.share_url[2] = <<"T", "I", "K", "T", "O", "K">>
    /\ resp.body.message[2] = <<"T", "i", "k", "t", "o", "k">>
    /\ DOMAIN jobs # {}

\* C13: every rocket response carries exactly 5 hashtags, pairwise distinct
\* and all from the fixed pool of 10, whatever the random draws, and the call
\* changes neither store.
C13_RocketHashtags ==
    /\ [](resp.op = "generate_rocket_metadata" =>
            LET tags == resp.body.hashtags IN
            /\ Len(tags) = 5
            /\ \A a, b \in 1..Len(tags) : tags[a] = tags[b] => a = b
            /\ \A a \in 1..Len(tags) :
                 tags[a] \in {"fyp", "viral", "trending", "shorts", "reels",
                              "explore", "foryou", "trend", "video", "content"})
    /\ [][resp'.op = "generate_rocket_metadata" =>
             videos' = videos /\ jobs' = jobs]_vars

\* C13 witness: a response whose hashtags are the last five of the pool in
\* reverse order, returned while a video is stored.
C13_Witness ==
    /\ resp.op = "generate_rocket_metadata"
    /\ resp.body.hashtags = <<"content", "video", "trend", "foryou", "explore">>
    /\ DOMAIN videos # {}

\* round(x / NumSteps) for a natural number x, halves rounded up.
RoundedShare(x) == (2 * x + NumSteps) \div (2 * NumSteps)

CompletedSteps(job) ==
    Cardinality({k \in 1..Len(job.steps) : job.steps[k].status = "completed"})

\* C14: the simulator step that completes step i (0-based) sets progress to
\* round(100 * (i+1) / 5) and marks that step completed; in every state a
\* job's progress is 20 times the number of its completed steps.
C14_ProgressCountsCompletedSteps ==
    /\ [][\A job_id \in JobIdPool :
            SimWake(job_id) =>
                LET i == tasks[job_id].i IN
                /\ jobs'[job_id].progress = RoundedShare(100 * (i + 1))
                /\ jobs'[job_id].steps[i + 1].status = "completed"]_vars
    /\ [](\A job_id \in DOMAIN jobs :
            jobs[job_id].progress = 20 * CompletedSteps(jobs[job_id]))

\* C14 witness: a job with three steps completed, the fourth running, at 60.
C14_Witness ==
    \E job_id \in DOMAIN jobs :
        /\ CompletedSteps(jobs[job_id]) = 3
        /\ jobs[job_id].steps[4].status = "in_progress"
        /\ jobs[job_id].progress = 60

\* What the simulator of job_id leaves alone: the video store, the set of
\* jobs and the record of every other job.
LeavesOthersAlone(job_id) ==
    /\ videos' = videos
    /\ DOMAIN jobs' = DOMAIN jobs
    /\ \A other \in DOMAIN jobs \ {job_id} : jobs'[other] = jobs[other]

\* C15: a simulator step of job J changes neither the video store nor the
\* record of any other job, and adds or removes no job; and every step that
\* changes the record of a stored job J is a step of J's simulator.
C15_SimulatorWritesOwnJobOnly ==
    /\ [][\A job_id \in JobIdPool :
            SimStart(job_id) \/ SimWake(job_id) => LeavesOthersAlone(job_id)]_vars
    /\ [][\A job_id \in DOMAIN jobs :
            job_id \in DOMAIN jobs' /\ jobs'[job_id] # jobs[job_id] =>
                SimStart(job_id) \/ SimWake(job_id)]_vars

\* C15 witness: two jobs are being simulated at once, at different steps.
C15_Witness ==
    /\ DOMAIN jobs = JobIdPool
    /\ \A job_id \in JobIdPool :
         job_id \in DOMAIN tasks /\ tasks[job_id].pc = "sleeping"
    /\ \E a, b \in JobIdPool : jobs[a].progress = 40 /\ jobs[b].progress = 20

\* C16: no step of any operation changes or removes a stored video record,
\* and in every state every job's video_id is the key of a stored video.
C16_VideosImmutable ==
    /\ [][\A video_id \in DOMAIN videos :
            /\ video_id \in DOMAIN videos'
            /\ videos'[video_id] = videos[video_id]]_vars
    /\ [](\A job_id \in DOMAIN jobs : jobs[job_id].video_id \in DOMAIN videos)

\* C16 witness: a second video has been uploaded after the first was put to
\* processing, and the job on the first has completed.
C16_Witness ==
    /\ DOMAIN videos = LibraryIdPool
    /\ \E job_id \in DOMAIN jobs :
         /\ jobs[job_id].status = "completed"
         /\ jobs[job_id].video_id \in DOMAIN videos
    /\ resp.op \in {"upload_video", "upload_youtube_url"}
    /\ resp.code = 200

HasUrl(video) == "url" \in DOMAIN video

\* The record a successful upload step has added.
Uploaded == videos'[CHOOSE video_id \in DOMAIN videos' \ DOMAIN videos : TRUE]

\* C17: a stored video record has a url field iff its source is youtube; an
\* upload with a file (with or without a url) stores source file and no url,
\* an upload of a url alone through either entry point stores source youtube
\* and that url.
C17_UrlIffYoutube ==
    /\ [](\A video_id \in DOMAIN videos :
            HasUrl(videos[video_id]) <=> videos[video_id].source = "youtube")
    /\ [][/\ \A file \in Files, url \in Urls :
               videos' # videos /\ upload_video_from(LibraryIdPool, file, url) =>
                   IF file # None
                   THEN Uploaded.source = "file" /\ ~HasUrl(Uploaded)
                   ELSE /\ Uploaded.source = "youtube"
                        /\ HasUrl(Uploaded)
                        /\ Uploaded.url = url[1]
          /\ \A url \in UrlStrings :
               videos' # videos /\ upload_youtube_url_from(LibraryIdPool, url) =>
                   /\ Uploaded.source = "youtube"
                   /\ HasUrl(Uploaded)
                   /\ Uploaded.url = url]_vars

\* C17 witness: the store holds a file record without url beside a youtube
\* record with its url.
C17_Witness ==
    \E a, b \in DOMAIN videos :
        /\ videos[a].source = "file" /\ ~HasUrl(videos[a])
        /\ videos[b].source = "youtube" /\ videos[b].url = "http://x/y.mp4"

EchoFields == {"job_id", "video_id", "duration", "quantity", "language", "created_at"}

SimulatorFields == {"current_step", "steps", "progress", "clips", "status"}

\* A step changes nothing of the job but current_step, the status of steps,
\* progress, clips and status.
WritesSimulatorFieldsOnly(job_id) ==
    /\ DOMAIN jobs'[job_id] = DOMAIN jobs[job_id]
    /\ \A field \in DOMAIN jobs[job_id] \ SimulatorFields :
         jobs'[job_id][field] = jobs[job_id][field]
    /\ DOMAIN jobs'[job_id].steps = DOMAIN jobs[job_id].steps
    /\ \A k \in DOMAIN jobs[job_id].steps :
         [jobs'[job_id].steps[k] EXCEPT !.status = jobs[job_id].steps[k].status]
           = jobs[job_id].steps[k]

\* C18: no step changes a stored job's job_id, video_id, duration, quantity,
\* language or created_at, and a simulator step changes nothing of its job
\* but current_step, the status of steps, progress, clips and status.
C18_EchoFieldsImmutable ==
    [][\A job_id \in DOMAIN jobs :
         /\ job_id \in DOMAIN jobs'
         /\ jobs'[job_id] # jobs[job_id] =>
              /\ \A field \in EchoFields :
                   jobs'[job_id][field] = jobs[job_id][field]
              /\ SimStart(job_id) \/ SimWake(job_id) =>
                   WritesSimulatorFieldsOnly(job_id)]_vars

\* C18 witness: a completed job with its clip still carries the request's
\* quantity and the creation time.
C18_Witness ==
    \E job_id \in DOMAIN jobs :
        /\ jobs[job_id].status = "completed"
        /\ Len(jobs[job_id].clips) = 1
        /\ jobs[job_id].quantity = 1
        /\ jobs[job_id].created_at \in Timestamps
        /\ resp.op = "regenerate_clip"

CompletionConsistent(job) ==
    /\ job.progress = 100 \/ AllStepsCompleted(job) => job.status # "processing"
    /\ job.status = "completed" => job.progress = 100 /\ AllStepsCompleted(job)

\* C19: no stored job and no status response shows progress 100 or all 5
\* steps completed while status is processing, nor status completed with
\* progress below 100 or a step not completed.
C19_CompletionAtomic ==
    /\ \A job_id \in DOMAIN jobs : CompletionConsistent(jobs[job_id])
    /\ IsStatusSnapshot(resp) => CompletionConsistent(resp.body)

\* C19 witness: a status response taken while the 5th step runs shows
\* processing at 80, and the job has completed since.
C19_Witness ==
    /\ IsStatusSnapshot(resp)
    /\ resp.body.status = "processing"
    /\ resp.body.progress = 80
    /\ resp.body.steps[5].status = "in_progress"
    /\ Finished(resp.body.job_id)

====
